---- MODULE Spec2Model ----
(***************************************************************************)
(* Model of the ILP Sender (src/src/lib/sender.js): createSender and its   *)
(* operations payRequest, quoteRequest and createRequest, together with    *)
(* the Ledger Client the sender talks to (connect, sendQuotedPayment,      *)
(* getFulfillment and the outgoing_fulfill event stream).                  *)
(***************************************************************************)
EXTENDS Integers, Sequences, FiniteSets, TLC

(***************************************************************************)
(* Bounds of the model.                                                    *)
(***************************************************************************)
\* number of payRequest calls made on the one sender
NumCalls == 2

Calls == 1..NumCalls

\* execution conditions the calls may carry
Conditions == {"cA", "cB"}

\* the opaque fulfillment bytes a ledger may record for a transfer
Fulfillments == {"f1", "f2"}

(***************************************************************************)
(* Values.                                                                 *)
(***************************************************************************)
\* error names a failing connect() may carry; the .catch at 155-159 does
\* not tell a failure of connect() from one of sendQuotedPayment
ConnectErrorNames == {"DuplicateIdError", "MissingFulfillmentError", "OtherError"}

\* error names a failing sendQuotedPayment may carry besides the
\* DuplicateIdError the ledger raises for a transfer id that is in use
SendErrorNames == {"MissingFulfillmentError", "OtherError"}

\* error names a failing getFulfillment may carry
PollErrorNames == {"MissingFulfillmentError", "OtherError"}

ExpiredMessage == "Transfer expired, money returned"

Ok(v) == [kind |-> "ok", val |-> v]

Err(n) == [kind |-> "err", val |-> n]

NoOutcome == [kind |-> "none", val |-> "none"]

\* a check that takes no fulfillment for one
TruthyNever(v) == FALSE

\* truthiness of a value handed to `if (fulfillment)`
Truthy(v) == v \notin {"null", "undefined"}

\* uuidSeed of the sender: fixed at construction
uuidSeed == "seed"

\* aguid(str): a hash-derived uuid of the string, deterministic
deterministicUuid(str) == <<"aguid", str>>

\* the transfer id payRequest derives: deterministicUuid(uuidSeed + condition)
TransferIdOf(c) == deterministicUuid(<<uuidSeed, c>>)

TransferIds == {TransferIdOf(c) : c \in Conditions}

NoTransfer == [state |-> "absent", cond |-> "none", fulfillment |-> "none", emitted |-> FALSE]

VARIABLES
  pc,        \* position of each payRequest call in its promise chain
  payment,   \* the payment object of each call: executionCondition and uuid
  reply,     \* the settled result of the client call a payRequest awaits
  listeners, \* calls whose fulfillmentListener is on 'outgoing_fulfill'
  timer,     \* state of each call's transferTimeout
  promiseFulfillmentListener, \* state of each call's inner promise
  outcome,   \* how the promise payRequest returned has settled
  hist,      \* what each call has done so far
  ledger,    \* the ledger's transfers by id
  client,    \* the Ledger Client's connection
  process    \* the Node process the sender runs in

payVars == <<pc, payment, reply, listeners, timer, promiseFulfillmentListener,
             outcome, hist, ledger, client, process>>

NoPayment == [executionCondition |-> "none", uuid |-> <<>>]

NoHist == [listened |-> FALSE, timerStarted |-> FALSE, polled |-> FALSE,
           pollAnswer |-> "none", delivered |-> FALSE, sentId |-> <<>>,
           submitError |-> "none", firedUnanswered |-> FALSE,
           settledCount |-> 0, recordedAtAnswer |-> FALSE]

InitPay ==
  /\ pc = [c \in Calls |-> "idle"]
  /\ payment = [c \in Calls |-> NoPayment]
  /\ reply = [c \in Calls |-> NoOutcome]
  /\ listeners = {}
  /\ timer = [c \in Calls |-> "unset"]
  /\ promiseFulfillmentListener = [c \in Calls |-> [kind |-> "undefined", val |-> "undefined"]]
  /\ outcome = [c \in Calls |-> NoOutcome]
  /\ hist = [c \in Calls |-> NoHist]
  /\ ledger = [id \in TransferIds |-> NoTransfer]
  /\ client = "new"
  /\ process = "running"

Settled(c) == pc[c] \in {"resolved", "rejected"}

(***************************************************************************)
(* The promise chain of payRequest, stage by stage.                        *)
(***************************************************************************)
\* a first .catch that rethrows every error
SwallowsNoSubmitError(name) == FALSE

\* the error names the first .catch swallows
SwallowsSubmitError(name) == name = "DuplicateIdError"

\* .catch after connect/sendQuotedPayment
SubmitCatch(r) ==
  IF r.kind = "err" /\ ~SwallowsSubmitError(r.val) THEN r ELSE Ok("undefined")

\* a second .catch that turns every error into null
SwallowsEveryPollError(name) == TRUE

\* the error names the second .catch turns into null
SwallowsPollError(name) == name = "MissingFulfillmentError"

\* .catch after the listener/getFulfillment stage
PollCatch(r) ==
  IF r.kind = "err" /\ SwallowsPollError(r.val) THEN Ok("null") ELSE r

\* the last .then: a truthy fulfillment is returned, otherwise the call
\* adopts promiseFulfillmentListener (undefined when never created)
FinalThen(r, inner) ==
  IF r.kind = "err" THEN [pc |-> "rejected", outcome |-> r]
  ELSE IF Truthy(r.val) THEN [pc |-> "resolved", outcome |-> r]
  ELSE IF inner.kind = "undefined" THEN [pc |-> "resolved", outcome |-> Ok("undefined")]
  ELSE IF inner.kind = "pending" THEN [pc |-> "waiting", outcome |-> NoOutcome]
  ELSE IF inner.kind = "ok" THEN [pc |-> "resolved", outcome |-> inner]
  ELSE [pc |-> "rejected", outcome |-> inner]

\* settle call c the way the rest of the chain does for stage result r
Finish(c, r, h) ==
  LET fin == FinalThen(PollCatch(r), promiseFulfillmentListener[c]) IN
  /\ pc' = [pc EXCEPT ![c] = fin.pc]
  /\ outcome' = [outcome EXCEPT ![c] = fin.outcome]
  /\ hist' = [hist EXCEPT ![c] =
       [h EXCEPT !.settledCount = IF fin.pc = "waiting" THEN @ ELSE @ + 1]]

(***************************************************************************)
(* payRequest, sender.js 143-200.                                          *)
(***************************************************************************)
\* payRequest(paymentParams): derive the transfer id, assign it to the
\* params object and call client.connect()
PayRequest(c, cnd) ==
  /\ process = "running"
  /\ pc[c] = "idle"
  /\ \A d \in Calls : d < c => pc[d] # "idle"
  /\ pc' = [pc EXCEPT ![c] = "connecting"]
  /\ payment' = [payment EXCEPT ![c] =
       [executionCondition |-> cnd, uuid |-> TransferIdOf(cnd)]]
  /\ UNCHANGED <<process, client, reply, listeners, timer, promiseFulfillmentListener,
                 outcome, hist, ledger>>

\* connect() resolved: client.sendQuotedPayment(payment) is called
ConnectResolve(c) ==
  /\ process = "running"
  /\ pc[c] = "connecting"
  /\ pc' = [pc EXCEPT ![c] = "sending"]
  /\ hist' = [hist EXCEPT ![c].sentId = payment[c].uuid]
  /\ client' = "connected"
  /\ UNCHANGED <<process, payment, reply, listeners, timer, promiseFulfillmentListener,
                 outcome, ledger>>

\* the .then at 160-184: create promiseFulfillmentListener (start the
\* timer, register the listener) and call getFulfillment(transferId)
ListenAndPoll(c, h) ==
  /\ timer' = [timer EXCEPT ![c] = "pending"]
  /\ listeners' = listeners \cup {c}
  /\ promiseFulfillmentListener' =
       [promiseFulfillmentListener EXCEPT ![c] = [kind |-> "pending", val |-> "none"]]
  /\ pc' = [pc EXCEPT ![c] = "polling"]
  /\ hist' = [hist EXCEPT ![c] =
       [h EXCEPT !.listened = TRUE, !.timerStarted = TRUE, !.polled = TRUE]]
  /\ UNCHANGED outcome

\* connect() rejected: sendQuotedPayment is not called; the .catch at
\* 155-159 swallows an error named DuplicateIdError, so that the .then at
\* 160 runs, and lets any other error through to the second .catch
ConnectReject(c, name) ==
  /\ process = "running"
  /\ pc[c] = "connecting"
  /\ LET r == SubmitCatch(Err(name))
         h == [hist[c] EXCEPT !.submitError = name] IN
       IF r.kind = "ok"
       THEN ListenAndPoll(c, h)
       ELSE /\ Finish(c, r, h)
            /\ UNCHANGED <<listeners, timer, promiseFulfillmentListener>>
  /\ UNCHANGED <<process, client, payment, reply, ledger>>

\* the ledger receives the transfer: it prepares it, or refuses an id that
\* is in use with a DuplicateIdError
LedgerSubmit(c) ==
  /\ process = "running"
  /\ pc[c] = "sending"
  /\ LET id == payment[c].uuid IN
       IF ledger[id].state = "absent"
       THEN /\ ledger' = [ledger EXCEPT ![id] =
                 [state |-> "prepared", cond |-> payment[c].executionCondition,
                  fulfillment |-> "none", emitted |-> FALSE]]
            /\ reply' = [reply EXCEPT ![c] = Ok("sent")]
       ELSE /\ reply' = [reply EXCEPT ![c] = Err("DuplicateIdError")]
            /\ UNCHANGED ledger
  /\ pc' = [pc EXCEPT ![c] = "sent"]
  /\ UNCHANGED <<process, client, payment, listeners, timer, promiseFulfillmentListener,
                 outcome, hist>>

\* sendQuotedPayment fails for another reason; no transfer is made
LedgerRefuse(c, name) ==
  /\ process = "running"
  /\ pc[c] = "sending"
  /\ reply' = [reply EXCEPT ![c] = Err(name)]
  /\ pc' = [pc EXCEPT ![c] = "sent"]
  /\ UNCHANGED <<process, client, payment, listeners, timer, promiseFulfillmentListener,
                 outcome, hist, ledger>>

\* sendQuotedPayment settled: .catch at 155-159, then the .then at 160
SendReturn(c) ==
  /\ process = "running"
  /\ pc[c] = "sent"
  /\ LET r == SubmitCatch(reply[c]) IN
       IF r.kind = "ok"
       THEN ListenAndPoll(c, [hist[c] EXCEPT !.submitError =
                               IF reply[c].kind = "err" THEN reply[c].val ELSE "none"])
       ELSE /\ Finish(c, r, [hist[c] EXCEPT !.submitError = reply[c].val])
            /\ UNCHANGED <<listeners, timer, promiseFulfillmentListener>>
  /\ reply' = [reply EXCEPT ![c] = NoOutcome]
  /\ UNCHANGED <<process, client, payment, ledger>>

\* what getFulfillment(id) may answer in the ledger's present state
GetFulfillment(id) ==
  (IF ledger[id].state = "executed"
     THEN {Ok(ledger[id].fulfillment)}
     ELSE {Err("MissingFulfillmentError"), Ok("null")})
  \cup {Err(n) : n \in PollErrorNames \ {"MissingFulfillmentError"}}

\* every reply getFulfillment can give
PollReplies ==
  {Ok(f) : f \in Fulfillments \cup {"null"}} \cup {Err(n) : n \in PollErrorNames}

\* what a reply of getFulfillment says: a proof, none recorded, or a failure
PollAnswerOf(r) ==
  IF r.kind = "err"
  THEN (IF r.val = "MissingFulfillmentError" THEN "missing" ELSE "error")
  ELSE (IF r.val \in Fulfillments THEN "proof" ELSE "missing")

\* the ledger answers the lookup of line 183 from its present state; the
\* answer travels back to the sender
LedgerLookup(c, r) ==
  /\ process = "running"
  /\ pc[c] = "polling"
  /\ r \in GetFulfillment(payment[c].uuid)
  /\ reply' = [reply EXCEPT ![c] = r]
  /\ pc' = [pc EXCEPT ![c] = "polled"]
  /\ hist' = [hist EXCEPT ![c].recordedAtAnswer =
       /\ r.kind = "ok"
       /\ ledger[payment[c].uuid].state = "executed"]
  /\ UNCHANGED <<process, client, payment, listeners, timer, promiseFulfillmentListener,
                 outcome, ledger>>

\* getFulfillment settled: .catch at 185-191 and .then at 192-199
PollReturn(c) ==
  /\ process = "running"
  /\ pc[c] = "polled"
  /\ Finish(c, reply[c], [hist[c] EXCEPT !.pollAnswer = PollAnswerOf(reply[c])])
  /\ reply' = [reply EXCEPT ![c] = NoOutcome]
  /\ UNCHANGED <<process, client, payment, listeners, timer, promiseFulfillmentListener,
                 ledger>>

\* a removeListener that removes nothing
removeListenerNoop(ls, cs) == ls

\* client.removeListener('outgoing_fulfill', fulfillmentListener) of the
\* calls in cs
removeListener(ls, cs) == ls \ cs

\* whether a rejection nobody handles ends the process: Node 15 and later
\* exit with code 1 unless the host handles 'unhandledRejection', earlier
\* versions print a warning and go on
UnhandledRejectionEnds == {FALSE, TRUE}

\* a handler is attached to promiseFulfillmentListener of call c only once
\* the .then at 192-199 has returned it (line 197)
HandlerAttached(c) == pc[c] = "waiting"

\* the setTimeout callback at 163-167; when it rejects a
\* promiseFulfillmentListener that has no handler the process may end
\* (ends), and with it the listeners and timers it held
TransferTimeout(c, ends) ==
  /\ process = "running"
  /\ timer[c] = "pending"
  /\ ends => ~HandlerAttached(c)
  /\ timer' = [d \in Calls |->
       IF d = c THEN "fired"
       ELSE IF ends /\ timer[d] = "pending" THEN "dead" ELSE timer[d]]
  /\ listeners' = IF ends THEN {} ELSE removeListener(listeners, {c})
  /\ process' = IF ends THEN "exited" ELSE process
  /\ promiseFulfillmentListener' =
       [promiseFulfillmentListener EXCEPT ![c] = Err(ExpiredMessage)]
  /\ IF HandlerAttached(c)
     THEN /\ pc' = [pc EXCEPT ![c] = "rejected"]
          /\ outcome' = [outcome EXCEPT ![c] = Err(ExpiredMessage)]
          /\ hist' = [hist EXCEPT ![c].settledCount = @ + 1]
     ELSE /\ hist' = [hist EXCEPT ![c].firedUnanswered =
                       (pc[c] \in {"polling", "polled"})]
          /\ UNCHANGED <<pc, outcome>>
  /\ UNCHANGED <<client, payment, reply, ledger>>

\* clearTimeout(transferTimeout) at 172
clearTimeout(t) == "cleared"

\* a listener that acts on every event
ListenerMatchesAny(c, evCond) == TRUE

\* a listener that acts on no event
ListenerMatchesNever(c, evCond) == FALSE

\* fulfillmentListener(transfer, fulfillment) at 169-176: does the
\* listener of call c act on an event carrying condition evCond
ListenerMatches(c, evCond) == evCond = payment[c].executionCondition

\* the connected client emits outgoing_fulfill for an executed transfer:
\* every registered listener runs
OutgoingFulfill(id) ==
  /\ process = "running"
  /\ client = "connected"
  /\ ledger[id].state = "executed"
  /\ ~ledger[id].emitted
  /\ ledger' = [ledger EXCEPT ![id].emitted = TRUE]
  /\ LET hit == {c \in listeners : ListenerMatches(c, ledger[id].cond)}
         f == ledger[id].fulfillment IN
       /\ timer' = [c \in Calls |-> IF c \in hit THEN clearTimeout(timer[c]) ELSE timer[c]]
       /\ listeners' = removeListener(listeners, hit)
       /\ promiseFulfillmentListener' =
            [c \in Calls |-> IF c \in hit THEN Ok(f)
                                          ELSE promiseFulfillmentListener[c]]
       /\ pc' = [c \in Calls |->
            IF c \in hit /\ pc[c] = "waiting" THEN "resolved" ELSE pc[c]]
       /\ outcome' = [c \in Calls |->
            IF c \in hit /\ pc[c] = "waiting" THEN Ok(f) ELSE outcome[c]]
       /\ hist' = [c \in Calls |->
            IF c \in hit
            THEN [hist[c] EXCEPT !.delivered = TRUE,
                    !.settledCount = IF pc[c] = "waiting" THEN @ + 1 ELSE @]
            ELSE hist[c]]
  /\ UNCHANGED <<process, client, payment, reply>>

(***************************************************************************)
(* The ledger behind the client.                                           *)
(***************************************************************************)
\* the receiver fulfils a prepared transfer; the ledger records the proof
LedgerFulfill(id, f) ==
  /\ ledger[id].state = "prepared"
  /\ ledger' = [ledger EXCEPT ![id] = [@ EXCEPT !.state = "executed", !.fulfillment = f]]
  /\ UNCHANGED <<process, client, pc, payment, reply, listeners, timer,
                 promiseFulfillmentListener, outcome, hist>>

\* the ledger's own hold on a prepared transfer runs out
LedgerExpire(id) ==
  /\ ledger[id].state = "prepared"
  /\ ledger' = [ledger EXCEPT ![id].state = "expired"]
  /\ UNCHANGED <<process, client, pc, payment, reply, listeners, timer,
                 promiseFulfillmentListener, outcome, hist>>

(***************************************************************************)
(* stopListening, sender.js 239-246.                                       *)
(***************************************************************************)
\* stopListening(): client.disconnect() and nothing else
StopListening ==
  /\ process = "running"
  /\ client = "connected"
  /\ client' = "disconnected"
  /\ UNCHANGED <<process, pc, payment, reply, listeners, timer,
                 promiseFulfillmentListener, outcome, hist, ledger>>

(***************************************************************************)
(* Sender options and the clock, createSender at sender.js 29-36.          *)
(***************************************************************************)
\* number of clock ticks the model follows
MaxTicks == 1

\* milliseconds in one clock tick
TickMs == 500

MsPerSecond == 1000

VARIABLES
  now,   \* the wall clock, in milliseconds
  opts   \* the options createSender was called with (0: not given)

\* opts.maxHoldDuration || 10
maxHoldDuration(o) == IF o.maxHoldDuration = 0 THEN 10 ELSE o.maxHoldDuration

\* opts.defaultRequestTimeout || 30
defaultRequestTimeout(o) ==
  IF o.defaultRequestTimeout = 0 THEN 30 ELSE o.defaultRequestTimeout

\* time passes
Tick ==
  /\ now < MaxTicks * TickMs
  /\ now' = now + TickMs
  /\ UNCHANGED opts

(***************************************************************************)
(* JavaScript values: optional strings and objects, ISO-8601 strings.      *)
(***************************************************************************)
Undefined == [t |-> "undefined"]

\* a string, as its sequence of characters or tokens
Str(s) == [t |-> "string", s |-> s]

Obj(o) == [t |-> "object", o |-> o]

\* truthiness as `x || y` and `if (x)` see it
IsTruthy(v) == v.t # "undefined" /\ (v.t = "string" => v.s # <<>>)

\* an ISO-8601 string: wall-clock milliseconds and the zone offset written
Iso(local, offset) == [local |-> local, offset |-> offset]

\* moment(str): the instant an ISO string names
momentOf(iso) == iso.local - iso.offset

\* moment.toISOString(): the instant written in UTC
toISOString(ms) == Iso(ms, 0)

(***************************************************************************)
(* createRequest, sender.js 215-237.                                       *)
(***************************************************************************)
Accounts == {<<"g", ".", "bob">>, <<"g">>}

Amounts == {"10", "25"}

\* base64 strings of shared secrets
SharedSecrets == {"AQ==", "Ag=="}

RequestIds == {Undefined, Str(<<>>), Str(<<"bob">>), Str(<<"id2">>)}

SuppliedExpiries == {Undefined, Str(Iso(30000, 0)), Str(Iso(1000, 0))}

RequestData == {Undefined, Obj("d1")}

\* initialisation vectors the cipher may draw
Ivs == {"iv1", "iv2"}

\* Buffer.from(str, 'base64')
Base64Decode(str) == IF str = "AQ==" THEN <<1>> ELSE <<2>>

\* cryptoHelper.hmacJsonForPskCondition(obj, secret): an HMAC of the JSON
\* form of obj, taken as injective
hmacJsonForPskCondition(obj, secret) == <<"hmac", secret, obj>>

\* toConditionUri(preimage)
toConditionUri(preimage) == <<"cc", preimage>>

\* cryptoHelper.aesEncryptObject(data, secret), iv being the random IV
aesEncryptObject(data, secret, iv) == <<"aes", secret, iv, data>>

base64url(bytes) == <<"b64u", bytes>>

\* the n-th identifier uuid.v4() hands out: each one new
uuidV4(n) == <<<<"u1">>, <<"u2">>, <<"u3">>>>[n]

\* a createRequest that computes the condition last, over the request with
\* its encrypted data
createRequestConditionLast(params, o, t, v4, iv) ==
  LET paymentRequest0 ==
        [address |-> params.destinationAccount,
         amount |-> params.destinationAmount,
         expires_at |-> IF IsTruthy(params.expiresAt)
                        THEN params.expiresAt.s
                        ELSE toISOString(t + defaultRequestTimeout(o) * MsPerSecond)]
      paymentRequest1 ==
        [paymentRequest0 EXCEPT !.address =
           @ \o <<".">> \o (IF IsTruthy(params.id) THEN params.id.s ELSE v4)]
      sharedSecret == Base64Decode(params.sharedSecret)
      paymentRequest2 ==
        IF IsTruthy(params.data)
        THEN ("data" :> [blob |-> base64url(aesEncryptObject(params.data, sharedSecret, iv))])
             @@ paymentRequest1
        ELSE paymentRequest1
      conditionPreimage == hmacJsonForPskCondition(paymentRequest2, sharedSecret)
      condition == toConditionUri(conditionPreimage)
  IN [request |-> ("condition" :> condition) @@ paymentRequest2,
      params |-> params]

\* a createRequest that sets the amount after computing the condition
createRequestAmountLate(params, o, t, v4, iv) ==
  LET paymentRequest0 ==
        [address |-> params.destinationAccount,
         expires_at |-> IF IsTruthy(params.expiresAt)
                        THEN params.expiresAt.s
                        ELSE toISOString(t + defaultRequestTimeout(o) * MsPerSecond)]
      paymentRequest1 ==
        [paymentRequest0 EXCEPT !.address =
           @ \o <<".">> \o (IF IsTruthy(params.id) THEN params.id.s ELSE v4)]
      sharedSecret == Base64Decode(params.sharedSecret)
      conditionPreimage == hmacJsonForPskCondition(paymentRequest1, sharedSecret)
      condition == toConditionUri(conditionPreimage)
      paymentRequest2 ==
        IF IsTruthy(params.data)
        THEN ("data" :> [blob |-> base64url(aesEncryptObject(params.data, sharedSecret, iv))])
             @@ paymentRequest1
        ELSE paymentRequest1
  IN [request |-> ("condition" :> condition) @@ ("amount" :> params.destinationAmount)
                    @@ paymentRequest2,
      params |-> params]

\* a createRequest whose default discriminator is a fixed string
createRequestFixedId(params, o, t, v4, iv) ==
  LET paymentRequest0 ==
        [address |-> params.destinationAccount,
         amount |-> params.destinationAmount,
         expires_at |-> IF IsTruthy(params.expiresAt)
                        THEN params.expiresAt.s
                        ELSE toISOString(t + defaultRequestTimeout(o) * MsPerSecond)]
      paymentRequest1 ==
        [paymentRequest0 EXCEPT !.address =
           @ \o <<".">> \o (IF IsTruthy(params.id) THEN params.id.s ELSE <<"u1">>)]
      sharedSecret == Base64Decode(params.sharedSecret)
      conditionPreimage == hmacJsonForPskCondition(paymentRequest1, sharedSecret)
      condition == toConditionUri(conditionPreimage)
      paymentRequest2 ==
        IF IsTruthy(params.data)
        THEN ("data" :> [blob |-> base64url(aesEncryptObject(params.data, sharedSecret, iv))])
             @@ paymentRequest1
        ELSE paymentRequest1
  IN [request |-> ("condition" :> condition) @@ paymentRequest2,
      params |-> params]

\* createRequest(params) at time t, with v4 what uuid.v4() would return and
\* iv what the cipher would draw; yields the request and the params object
\* as the call leaves it
createRequest(params, o, t, v4, iv) ==
  LET paymentRequest0 ==
        [address |-> params.destinationAccount,
         amount |-> params.destinationAmount,
         expires_at |-> IF IsTruthy(params.expiresAt)
                        THEN params.expiresAt.s
                        ELSE toISOString(t + defaultRequestTimeout(o) * MsPerSecond)]
      paymentRequest1 ==
        [paymentRequest0 EXCEPT !.address =
           @ \o <<".">> \o (IF IsTruthy(params.id) THEN params.id.s ELSE v4)]
      sharedSecret == Base64Decode(params.sharedSecret)
      conditionPreimage == hmacJsonForPskCondition(paymentRequest1, sharedSecret)
      condition == toConditionUri(conditionPreimage)
      paymentRequest2 ==
        IF IsTruthy(params.data)
        THEN ("data" :> [blob |-> base64url(aesEncryptObject(params.data, sharedSecret, iv))])
             @@ paymentRequest1
        ELSE paymentRequest1
  IN [request |-> ("condition" :> condition) @@ paymentRequest2,
      params |-> params]

VARIABLES
  requests,    \* the createRequest calls made: params before and after, result
  uuidsIssued  \* how many identifiers uuid.v4() has handed out

ParamsSet ==
  {[destinationAccount |-> a, destinationAmount |-> m, sharedSecret |-> s,
    id |-> i, expiresAt |-> e, data |-> d] :
     a \in Accounts, m \in Amounts, s \in SharedSecrets, i \in RequestIds,
     e \in SuppliedExpiries, d \in RequestData}

\* a createRequest call; the model follows a first and a second call
CreateRequest(params, iv) ==
  /\ Len(requests) < 2
  /\ LET usesV4 == ~IsTruthy(params.id)
         out == createRequest(params, opts, now, uuidV4(uuidsIssued + 1), iv)
         call == [given |-> params, params |-> out.params, request |-> out.request,
                  iv |-> IF IsTruthy(params.data) THEN iv ELSE "none",
                  at |-> now] IN
       /\ requests' = Append(requests, call)
       /\ uuidsIssued' = IF usesV4 THEN uuidsIssued + 1 ELSE uuidsIssued
  /\ UNCHANGED <<now, opts>>

requestVars == <<requests, uuidsIssued>>

InitRequestIdle == requests = <<>> /\ uuidsIssued = 0

(***************************************************************************)
(* quoteRequest, sender.js 99-136.                                         *)
(***************************************************************************)
Num(n) == [t |-> "number", n |-> n]

\* truthiness of a request field or of a quote
IsTruthyValue(v) ==
  /\ v.t \notin {"undefined", "null"}
  /\ v.t = "string" => v.s # <<>>
  /\ v.t = "number" => v.n # 0

\* the decimal digits of a number
NumToString(n) == IF n = 10 THEN <<"1", "0">> ELSE <<"7">>

\* String(x)
JsString(v) ==
  IF v.t = "number" THEN Str(NumToString(v.n))
  ELSE IF v.t = "undefined" THEN Str(<<"undefined">>)
  ELSE v

\* moment(x): the instant of an ISO string; of undefined, the present
momentOrNow(v, t) == IF v.t = "undefined" THEN t ELSE momentOf(v.s)

\* moment.min([a, b])
momentMin(a, b) == IF b < a THEN b ELSE a

\* moment().add(n, 'seconds') at time t
addSeconds(t, n) == t + n * MsPerSecond

\* an expiry that takes the request's word for it
clampedExpiryUnclamped(request, o, t) ==
  toISOString(momentOrNow(request.expires_at, t))

\* the expiresAt of the PaymentParams, sender.js 129-132, computed at time t
clampedExpiry(request, o, t) ==
  toISOString(momentMin(momentOrNow(request.expires_at, t),
                        addSeconds(t, maxHoldDuration(o))))

EmptyQuoteMessage == "Got empty quote response from the connector"

\* a response handler that takes the destination amount from the quote
quoteResponseFromQuote(request, quote, o, t) ==
  IF ~IsTruthyValue(quote)
  THEN Err(EmptyQuoteMessage)
  ELSE Ok([sourceAmount |-> JsString(quote.o.sourceAmount),
           connectorAccount |-> quote.o.connectorAccount,
           destinationAmount |-> JsString(quote.o.destinationAmount),
           destinationAccount |-> request.address,
           destinationMemo |-> [data |-> request.data,
                                expires_at |-> request.expires_at],
           expiresAt |-> clampedExpiry(request, o, t),
           executionCondition |-> request.condition])

\* the .then at 115-135, run at time t on the quote the client resolved with
quoteResponse(request, quote, o, t) ==
  IF ~IsTruthyValue(quote)
  THEN Err(EmptyQuoteMessage)
  ELSE Ok([sourceAmount |-> JsString(quote.o.sourceAmount),
           connectorAccount |-> quote.o.connectorAccount,
           destinationAmount |-> JsString(request.amount),
           destinationAccount |-> request.address,
           destinationMemo |-> [data |-> request.data,
                                expires_at |-> request.expires_at],
           expiresAt |-> clampedExpiry(request, o, t),
           executionCondition |-> request.condition])

\* argument checks that leave out the condition
quoteRequestCheckNoCondition(request) ==
  IF ~IsTruthyValue(request.address) THEN "Malformed payment request: no address"
  ELSE IF ~IsTruthyValue(request.amount) THEN "Malformed payment request: no amount"
  ELSE "none"

\* the argument checks at 100-108: the rejection, or "none"
quoteRequestCheck(request) ==
  IF ~IsTruthyValue(request.address) THEN "Malformed payment request: no address"
  ELSE IF ~IsTruthyValue(request.amount) THEN "Malformed payment request: no amount"
  ELSE IF ~IsTruthyValue(request.condition) THEN "Malformed payment request: no condition"
  ELSE "none"

(***************************************************************************)
(* quoteSourceAmount and quoteDestinationAmount, sender.js 44-92.          *)
(***************************************************************************)
\* the argument checks at 45-50: the rejection, or "none"
quoteSourceAmountCheck(destinationAddress, sourceAmount) ==
  IF ~IsTruthyValue(destinationAddress) \/ destinationAddress.t # "string"
  THEN "Must provide destination address"
  ELSE IF ~IsTruthyValue(sourceAmount) THEN "Must provide source amount"
  ELSE "none"

\* the argument checks at 73-78: the rejection, or "none"
quoteDestinationAmountCheck(destinationAddress, destinationAmount) ==
  IF ~IsTruthyValue(destinationAddress) \/ destinationAddress.t # "string"
  THEN "Must provide destination address"
  ELSE IF ~IsTruthyValue(destinationAmount) THEN "Must provide destination amount"
  ELSE "none"

\* a handler that reads the amount of whatever the connector answered
sourceAmountResponseUnchecked(quote) ==
  IF ~IsTruthyValue(quote) THEN Ok(JsString(Undefined))
  ELSE Ok(JsString(quote.o.destinationAmount))

\* the .then at 57-63 of quoteSourceAmount
sourceAmountResponse(quote) ==
  IF ~IsTruthyValue(quote) THEN Err(EmptyQuoteMessage)
  ELSE Ok(JsString(quote.o.destinationAmount))

\* the .then at 85-91 of quoteDestinationAmount
destinationAmountResponse(quote) ==
  IF ~IsTruthyValue(quote) THEN Err(EmptyQuoteMessage)
  ELSE Ok(JsString(quote.o.sourceAmount))

\* destination addresses given to the amount quotes: none, empty, a
\* number, an address
AmountAddresses == {Undefined, Str(<<>>), Num(5), Str(<<"g", ".", "bob">>)}

\* amounts given to the amount quotes: none, empty, zero, a number, a string
AmountValues == {Undefined, Str(<<>>), Num(0), Num(10), Str(<<"1", "0">>)}

QuoteAddresses == {Undefined, Str(<<"g", ".", "bob", ".", "id1">>)}

QuoteAmounts == {Undefined, Str(<<"1", "0">>), Num(10)}

QuoteConditions == {Undefined, Str(<<"cA">>)}

QuoteData == {Undefined, Obj("blob")}

\* expiries a request may state: none, UTC strings, one with a zone offset
QuoteExpiries == {Undefined, Str(Iso(500, 0)), Str(Iso(1500, 0)),
                  Str(Iso(30000, 0)), Str(Iso(3601200, 3600000))}

QuoteRequests ==
  {[address |-> a, amount |-> m, condition |-> c, data |-> d, expires_at |-> e] :
     a \in QuoteAddresses, m \in QuoteAmounts, c \in QuoteConditions,
     d \in QuoteData, e \in QuoteExpiries}

\* what client.quote may resolve with
QuoteReplies == {[t |-> "null"], Undefined,
                 Obj([sourceAmount |-> Num(7), destinationAmount |-> Num(10),
                      connectorAccount |-> "connie"]),
                 Obj([sourceAmount |-> Str(<<"7">>), destinationAmount |-> Str(<<"9">>),
                      connectorAccount |-> "connie"])}

QuoteErrorNames == {"OtherError"}

\* values opts.maxHoldDuration may take (0: not given)
HoldOptions == {0, 1, 2}

VARIABLES
  quote  \* the quote call: function, position, arguments, client calls, outcome

QuoteIdle ==
  [fn |-> "none", pc |-> "idle", request |-> Undefined, given |-> Undefined,
   connects |-> 0, quotes |-> 0, sent |-> Undefined, got |-> [t |-> "none"],
   failed |-> "none", outcome |-> NoOutcome, at |-> 0]

\* quoteRequest(request): the argument checks, then client.connect()
QuoteRequest(req) ==
  /\ quote.pc = "idle"
  /\ LET bad == quoteRequestCheck(req) IN
       IF bad # "none"
       THEN quote' = [quote EXCEPT !.fn = "quoteRequest", !.pc = "rejected",
                       !.request = req, !.given = req, !.outcome = Err(bad)]
       ELSE quote' = [quote EXCEPT !.fn = "quoteRequest", !.pc = "connecting",
                       !.request = req, !.given = req, !.connects = @ + 1]
  /\ UNCHANGED <<now, opts>>

\* quoteSourceAmount(destinationAddress, sourceAmount): the argument
\* checks, then client.connect()
QuoteSourceAmount(addr, amt) ==
  /\ quote.pc = "idle"
  /\ LET bad == quoteSourceAmountCheck(addr, amt)
         args == [address |-> addr, amount |-> amt] IN
       IF bad # "none"
       THEN quote' = [quote EXCEPT !.fn = "quoteSourceAmount", !.pc = "rejected",
                       !.request = args, !.given = args, !.outcome = Err(bad)]
       ELSE quote' = [quote EXCEPT !.fn = "quoteSourceAmount", !.pc = "connecting",
                       !.request = args, !.given = args, !.connects = @ + 1]
  /\ UNCHANGED <<now, opts>>

\* quoteDestinationAmount(destinationAddress, destinationAmount): the
\* argument checks, then client.connect()
QuoteDestinationAmount(addr, amt) ==
  /\ quote.pc = "idle"
  /\ LET bad == quoteDestinationAmountCheck(addr, amt)
         args == [address |-> addr, amount |-> amt] IN
       IF bad # "none"
       THEN quote' = [quote EXCEPT !.fn = "quoteDestinationAmount", !.pc = "rejected",
                       !.request = args, !.given = args, !.outcome = Err(bad)]
       ELSE quote' = [quote EXCEPT !.fn = "quoteDestinationAmount", !.pc = "connecting",
                       !.request = args, !.given = args, !.connects = @ + 1]
  /\ UNCHANGED <<now, opts>>

\* the argument of client.quote: 53-56, 81-84, 111-114
quoteArgs(fn, request) ==
  IF fn = "quoteSourceAmount"
  THEN [destinationAddress |-> request.address, sourceAmount |-> JsString(request.amount)]
  ELSE IF fn = "quoteDestinationAmount"
  THEN [destinationAddress |-> request.address,
        destinationAmount |-> JsString(request.amount)]
  ELSE [destinationAddress |-> request.address, destinationAmount |-> request.amount]

\* connect() resolved: client.quote is called
QuoteConnectResolve ==
  /\ quote.pc = "connecting"
  /\ client' = "connected"
  /\ quote' = [quote EXCEPT !.pc = "quoting", !.quotes = @ + 1,
                            !.sent = quoteArgs(quote.fn, quote.request)]
  /\ UNCHANGED <<now, opts>>

\* connect() or quote() rejected: the error propagates
QuoteClientReject(name) ==
  /\ quote.pc \in {"connecting", "quoting"}
  /\ quote' = [quote EXCEPT !.pc = "rejected", !.outcome = Err(name),
                            !.failed = name]
  /\ UNCHANGED <<now, opts>>

\* quote() resolved with q: the .then at 57-63, 85-91 or 115-135 runs now
QuoteReturn(q) ==
  /\ quote.pc = "quoting"
  /\ LET r == IF quote.fn = "quoteSourceAmount" THEN sourceAmountResponse(q)
              ELSE IF quote.fn = "quoteDestinationAmount"
              THEN destinationAmountResponse(q)
              ELSE quoteResponse(quote.request, q, opts, now) IN
       quote' = [quote EXCEPT !.pc = IF r.kind = "ok" THEN "resolved" ELSE "rejected",
                              !.outcome = r, !.at = now, !.got = q]
  /\ UNCHANGED <<now, opts>>

(***************************************************************************)
(* Specifications.                                                         *)
(***************************************************************************)
vars == <<pc, payment, reply, listeners, timer, promiseFulfillmentListener,
          outcome, hist, ledger, client, process, now, opts, requests, uuidsIssued, quote>>

NoOpts == [maxHoldDuration |-> 0, defaultRequestTimeout |-> 0]

otherVars == <<now, opts, requests, uuidsIssued, quote>>

\* payRequest calls against the ledger
Init ==
  /\ InitPay
  /\ now = 0
  /\ opts = NoOpts
  /\ InitRequestIdle
  /\ quote = QuoteIdle

Next ==
  \/ /\ \E c \in Calls, cnd \in Conditions : PayRequest(c, cnd)
     /\ UNCHANGED otherVars
  \/ /\ \E c \in Calls : ConnectResolve(c)
     /\ UNCHANGED otherVars
  \/ /\ \E c \in Calls, n \in ConnectErrorNames : ConnectReject(c, n)
     /\ UNCHANGED otherVars
  \/ /\ \E c \in Calls : LedgerSubmit(c)
     /\ UNCHANGED otherVars
  \/ /\ \E c \in Calls, n \in SendErrorNames : LedgerRefuse(c, n)
     /\ UNCHANGED otherVars
  \/ /\ \E c \in Calls : SendReturn(c)
     /\ UNCHANGED otherVars
  \/ /\ \E c \in Calls, r \in PollReplies : LedgerLookup(c, r)
     /\ UNCHANGED otherVars
  \/ /\ \E c \in Calls : PollReturn(c)
     /\ UNCHANGED otherVars
  \/ /\ \E c \in Calls, ends \in UnhandledRejectionEnds : TransferTimeout(c, ends)
     /\ UNCHANGED otherVars
  \/ /\ \E id \in TransferIds : OutgoingFulfill(id)
     /\ UNCHANGED otherVars
  \/ /\ \E id \in TransferIds, f \in Fulfillments : LedgerFulfill(id, f)
     /\ UNCHANGED otherVars
  \/ /\ \E id \in TransferIds : LedgerExpire(id)
     /\ UNCHANGED otherVars

Spec == Init /\ [][Next]_vars

\* payRequest calls with timers that fire: a setTimeout callback that is
\* due runs
SpecFair ==
  /\ Init
  /\ [][Next]_vars
  /\ \A c \in Calls :
       WF_vars(/\ \E ends \in UnhandledRejectionEnds : TransferTimeout(c, ends)
               /\ UNCHANGED otherVars)

\* payRequest calls on a sender that may be told to stop listening
NextStop ==
  \/ Next
  \/ /\ StopListening
     /\ UNCHANGED otherVars

SpecStop == Init /\ [][NextStop]_vars

\* createRequest calls
InitRequest ==
  /\ InitPay
  /\ now = 0
  /\ opts = NoOpts
  /\ InitRequestIdle
  /\ quote = QuoteIdle

NextRequest ==
  \/ /\ \E p \in ParamsSet, iv \in Ivs : CreateRequest(p, iv)
     /\ UNCHANGED <<payVars, quote>>
  \/ /\ Tick
     /\ UNCHANGED <<payVars, requests, uuidsIssued, quote>>

SpecRequest == InitRequest /\ [][NextRequest]_vars

\* quoteRequest calls
InitQuote ==
  /\ InitPay
  /\ now = 0
  /\ opts \in {[maxHoldDuration |-> h, defaultRequestTimeout |-> 0] : h \in HoldOptions}
  /\ InitRequestIdle
  /\ quote = QuoteIdle

NextQuote ==
  \/ /\ \E req \in QuoteRequests : QuoteRequest(req)
     /\ UNCHANGED <<payVars, requests, uuidsIssued>>
  \/ /\ \E a \in AmountAddresses, m \in AmountValues : QuoteSourceAmount(a, m)
     /\ UNCHANGED <<payVars, requests, uuidsIssued>>
  \/ /\ \E a \in AmountAddresses, m \in AmountValues : QuoteDestinationAmount(a, m)
     /\ UNCHANGED <<payVars, requests, uuidsIssued>>
  \/ /\ QuoteConnectResolve
     /\ UNCHANGED <<pc, payment, reply, listeners, timer,
                    promiseFulfillmentListener, outcome, hist, ledger,
                    process, requests, uuidsIssued>>
  \/ /\ \E n \in QuoteErrorNames : QuoteClientReject(n)
     /\ UNCHANGED <<payVars, requests, uuidsIssued>>
  \/ /\ \E q \in QuoteReplies : QuoteReturn(q)
     /\ UNCHANGED <<payVars, requests, uuidsIssued>>
  \/ /\ Tick
     /\ UNCHANGED <<payVars, requests, uuidsIssued, quote>>

SpecQuote == InitQuote /\ [][NextQuote]_vars

(***************************************************************************)
(* Properties of payRequest.                                               *)
(***************************************************************************)
Started(c) == pc[c] # "idle"

\* calls c and d were made with the same paymentParams
SameParams(c, d) ==
  /\ Started(c) /\ Started(d)
  /\ payment[c].executionCondition = payment[d].executionCondition

\* call c has handed its transfer to sendQuotedPayment
Submitted(c) == hist[c].sentId # <<>>

\* the client did what a working Ledger Client does for call c: no failure
\* of connect, sendQuotedPayment or getFulfillment other than the
\* duplicate-id signal of sendQuotedPayment and the missing-fulfillment
\* signal of getFulfillment
ClientWorked(c) ==
  /\ hist[c].submitError \in {"none", "DuplicateIdError"}
  /\ hist[c].submitError = "DuplicateIdError" => Submitted(c)
  /\ hist[c].pollAnswer # "error"

\* the ledger's transfers made for condition cnd
TransfersFor(cnd) ==
  {id \in TransferIds : ledger[id].state # "absent" /\ ledger[id].cond = cnd}

\* C1 as stated: two payRequest calls with the same paymentParams submit the
\* same transfer id, the ledger holds one transfer for them, no call fails
\* with DuplicateIdError, and the calls resolve to the same fulfillment
\* proof: once both have settled, both have resolved with the proof the
\* ledger recorded, so that a call which resolved is never matched by a
\* call which failed.
C1_Original ==
  \A c, d \in Calls :
    (c # d /\ SameParams(c, d) /\ ClientWorked(c) /\ ClientWorked(d)) =>
      /\ payment[c].uuid = payment[d].uuid
      /\ Cardinality(TransfersFor(payment[c].executionCondition)) <= 1
      /\ outcome[c] # Err("DuplicateIdError")
      /\ (Settled(c) /\ Settled(d) /\ pc[c] = "resolved") =>
           /\ pc[d] = "resolved"
           /\ outcome[c] = outcome[d]

\* C1 amended: two payRequest calls with the same paymentParams submit the
\* same transfer id, the ledger holds one transfer for them and no call
\* fails with DuplicateIdError; each call that settles either resolves with
\* the proof the ledger recorded for that transfer or, when its own timer
\* fired after getFulfillment reported no fulfillment, rejects as expired.
C1_Idempotent ==
  \A c, d \in Calls :
    (SameParams(c, d) /\ ClientWorked(c) /\ ClientWorked(d)) =>
      /\ payment[c].uuid = payment[d].uuid
      /\ (hist[c].sentId # <<>> /\ hist[d].sentId # <<>>) => hist[c].sentId = hist[d].sentId
      /\ Cardinality(TransfersFor(payment[c].executionCondition)) <= 1
      /\ hist[c].listened => TransfersFor(payment[c].executionCondition) = {payment[c].uuid}
      /\ outcome[c] # Err("DuplicateIdError")
      /\ Settled(c) =>
           \/ /\ pc[c] = "resolved"
              /\ ledger[payment[c].uuid].state = "executed"
              /\ outcome[c] = Ok(ledger[payment[c].uuid].fulfillment)
           \/ /\ pc[c] = "rejected"
              /\ outcome[c] = Err(ExpiredMessage)
              /\ timer[c] = "fired"
              /\ hist[c].pollAnswer = "missing"

\* the second call was refused as a duplicate and both calls resolved
C1_Witness ==
  \E c, d \in Calls :
    /\ c # d /\ SameParams(c, d)
    /\ hist[d].submitError = "DuplicateIdError"
    /\ pc[c] = "resolved" /\ pc[d] = "resolved"
    /\ outcome[c] = outcome[d]

\* C2: when getFulfillment reported no fulfillment, no matching event was
\* delivered and the call's timer has fired, the call has failed with the
\* expired-transfer error and its listener is no longer registered.
C2_TimeoutPath ==
  \A c \in Calls :
    (hist[c].pollAnswer = "missing" /\ ~hist[c].delivered /\ timer[c] = "fired") =>
      /\ pc[c] = "rejected"
      /\ outcome[c] = Err(ExpiredMessage)
      /\ c \notin listeners

\* a call that was listening has timed out
C2_Witness ==
  \E c \in Calls :
    /\ hist[c].pollAnswer = "missing" /\ hist[c].listened /\ timer[c] = "fired"
    /\ outcome[c] = Err(ExpiredMessage)

\* C3 as stated: a call whose getFulfillment returned a proof has resolved
\* with it and has never registered a listener.
C3_Original ==
  \A c \in Calls :
    hist[c].pollAnswer = "proof" =>
      /\ pc[c] = "resolved"
      /\ ~hist[c].listened

\* C3 amended: a call whose getFulfillment returned a proof has resolved
\* with that proof in the step the answer arrived, waiting for no event or
\* timer; its listener was registered before the lookup and is still
\* registered while its timer is pending.
C3_Shortcut ==
  \A c \in Calls :
    hist[c].pollAnswer = "proof" =>
      /\ pc[c] = "resolved"
      /\ outcome[c] = Ok(ledger[payment[c].uuid].fulfillment)
      /\ hist[c].listened
      /\ timer[c] = "pending" => c \in listeners

\* a call resolved by the lookup while its event has not been delivered
C3_Witness ==
  \E c \in Calls :
    /\ hist[c].pollAnswer = "proof" /\ pc[c] = "resolved"
    /\ ~hist[c].delivered /\ timer[c] = "pending"

\* C4: a settled call has no listener registered and no timer pending.
C4_HandlerLifetime ==
  \A c \in Calls :
    Settled(c) => (c \notin listeners /\ timer[c] # "pending")

\* C5: a call whose connect() or sendQuotedPayment failed with an error
\* other than DuplicateIdError rejects with that error, and registers no
\* listener, starts no timer, makes no lookup and does not resolve.
C5_SubmissionFatal ==
  \A c \in Calls :
    hist[c].submitError \notin {"none", "DuplicateIdError"} =>
      /\ pc[c] = "rejected"
      /\ outcome[c] = Err(hist[c].submitError)
      /\ ~hist[c].listened /\ ~hist[c].timerStarted /\ ~hist[c].polled

\* C6: once the timer of a call that submitted its transfer has fired the
\* call is settled, also when its lookup has not answered yet.
C6_Original ==
  \A c \in Calls : (Submitted(c) /\ timer[c] = "fired") => Settled(c)

(***************************************************************************)
(* Properties of quoteRequest.                                             *)
(***************************************************************************)
\* the earlier of two instants
Earlier(a, b) == IF a <= b THEN a ELSE b

\* now + the configured hold, when the quote response was processed
HoldLimit == quote.at + opts.maxHoldDuration * MsPerSecond

\* C7: with a positive configured maxHoldDuration the expiresAt quoteRequest
\* returns is the earlier of the request's expires_at and now +
\* maxHoldDuration, now being when the quote response is processed; it is
\* now + maxHoldDuration when the request's expiry is later, and it never
\* exceeds now + maxHoldDuration.
C7_ExpiryClamping ==
  (quote.fn = "quoteRequest" /\ quote.pc = "resolved" /\ opts.maxHoldDuration > 0) =>
    LET req == quote.request
        got == momentOf(quote.outcome.val.expiresAt) IN
      /\ got <= HoldLimit
      /\ req.expires_at # Undefined =>
           /\ got = Earlier(momentOf(req.expires_at.s), HoldLimit)
           /\ momentOf(req.expires_at.s) > HoldLimit => got = HoldLimit

\* a request expiring later than the hold allows was quoted after the clock
\* had moved on, and got the clamped expiry
C7_Witness ==
  /\ quote.fn = "quoteRequest"
  /\ quote.pc = "resolved" /\ opts.maxHoldDuration > 0 /\ quote.at > 0
  /\ quote.request.expires_at # Undefined
  /\ momentOf(quote.request.expires_at.s) > HoldLimit
  /\ momentOf(quote.outcome.val.expiresAt) = HoldLimit

(***************************************************************************)
(* Properties of createRequest.                                            *)
(***************************************************************************)
TwoRequests == Len(requests) = 2

\* the input fields on which two createRequest calls differ; the expiry of
\* a call is the expires_at its request carries
DifferingFields(x, y) ==
  {f \in {"amount", "expiry", "account", "id", "data"} :
     \/ f = "amount" /\ x.given.destinationAmount # y.given.destinationAmount
     \/ f = "expiry" /\ x.request.expires_at # y.request.expires_at
     \/ f = "account" /\ x.given.destinationAccount # y.given.destinationAccount
     \/ f = "id" /\ x.given.id # y.given.id
     \/ f = "data" /\ x.given.data # y.given.data}

\* C8 as stated: two calls with the same sharedSecret that differ in exactly
\* one of amount, expiry, account, id or data return different conditions.
C8_Original ==
  TwoRequests =>
    LET x == requests[1]
        y == requests[2] IN
      (x.given.sharedSecret = y.given.sharedSecret
         /\ Cardinality(DifferingFields(x, y)) = 1) =>
        x.request.condition # y.request.condition

\* C8 amended: two calls with the same sharedSecret that differ in exactly
\* one of amount, expiry, account or id return different conditions,
\* whatever their data; the data is not covered, the condition being
\* computed before the encrypted data is attached: calls that agree on
\* address, amount and expires_at return the same condition even when
\* their data differ.
C8_ConditionCovers ==
  TwoRequests =>
    LET x == requests[1]
        y == requests[2] IN
      x.given.sharedSecret = y.given.sharedSecret =>
        /\ Cardinality(DifferingFields(x, y) \ {"data"}) = 1 =>
             x.request.condition # y.request.condition
        /\ (/\ x.request.address = y.request.address
            /\ x.request.amount = y.request.amount
            /\ x.request.expires_at = y.request.expires_at) =>
             x.request.condition = y.request.condition

\* two calls that differ in the amount alone, and two that differ in the
\* data alone
C8_Witness ==
  /\ TwoRequests
  /\ requests[1].given.sharedSecret = requests[2].given.sharedSecret
  /\ \/ /\ DifferingFields(requests[1], requests[2]) = {"amount"}
        /\ requests[1].request.condition # requests[2].request.condition
     \/ /\ DifferingFields(requests[1], requests[2]) = {"data"}
        /\ requests[1].request.condition = requests[2].request.condition

\* C9: two calls with identical destinationAccount, destinationAmount,
\* sharedSecret, id and expiresAt, id and expiresAt both supplied, return
\* the same address, amount, expires_at and condition, whenever they are
\* made and whatever their data and the cipher's IV.
C9_Determinism ==
  TwoRequests =>
    LET x == requests[1]
        y == requests[2] IN
      (/\ x.given.destinationAccount = y.given.destinationAccount
       /\ x.given.destinationAmount = y.given.destinationAmount
       /\ x.given.sharedSecret = y.given.sharedSecret
       /\ x.given.id = y.given.id /\ IsTruthy(x.given.id)
       /\ x.given.expiresAt = y.given.expiresAt /\ IsTruthy(x.given.expiresAt)) =>
        /\ x.request.address = y.request.address
        /\ x.request.amount = y.request.amount
        /\ x.request.expires_at = y.request.expires_at
        /\ x.request.condition = y.request.condition

\* the same five inputs given at two different times with data encrypted
\* under two different IVs
C9_Witness ==
  /\ TwoRequests
  /\ requests[1].given = requests[2].given
  /\ IsTruthy(requests[1].given.id) /\ IsTruthy(requests[1].given.expiresAt)
  /\ requests[1].at # requests[2].at
  /\ requests[1].iv = "iv1" /\ requests[2].iv = "iv2"
  /\ requests[1].request.condition = requests[2].request.condition

\* the identifiers uuid.v4() has handed out so far
IssuedUuids == {uuidV4(n) : n \in 1..uuidsIssued}

\* C10: the address of a request is destinationAccount + '.' + the caller's
\* id when one is supplied and otherwise a newly generated identifier; two
\* calls without an id and with otherwise identical inputs return different
\* addresses and different conditions; the params object is left as given.
C10_Discriminator ==
  /\ \A k \in 1..Len(requests) :
       LET x == requests[k] IN
         /\ x.params = x.given
         /\ IF IsTruthy(x.given.id)
            THEN x.request.address = x.given.destinationAccount \o <<".">> \o x.given.id.s
            ELSE \E u \in IssuedUuids :
                   x.request.address = x.given.destinationAccount \o <<".">> \o u
  /\ TwoRequests =>
       LET x == requests[1]
           y == requests[2] IN
         (/\ ~IsTruthy(x.given.id) /\ ~IsTruthy(y.given.id)
          /\ [x.given EXCEPT !.id = Undefined] = [y.given EXCEPT !.id = Undefined]) =>
           /\ x.request.address # y.request.address
           /\ x.request.condition # y.request.condition

\* two calls with the same inputs and no id
C10_Witness ==
  /\ TwoRequests
  /\ requests[1].given = requests[2].given
  /\ requests[1].given.id = Undefined
  /\ requests[1].request.address # requests[2].request.address

(***************************************************************************)
(* Properties of the quote functions.                                      *)
(***************************************************************************)
\* a value that is given and not empty (for a number: not zero)
Present(v) ==
  /\ v.t \notin {"undefined", "null"}
  /\ v # Str(<<>>)
  /\ v # Num(0)

\* the quote call was given every field it requires
RequiredFieldsPresent ==
  IF quote.fn = "quoteRequest"
  THEN /\ Present(quote.given.address)
       /\ Present(quote.given.amount)
       /\ Present(quote.given.condition)
  ELSE /\ Present(quote.given.address) /\ quote.given.address.t = "string"
       /\ Present(quote.given.amount)

InvalidArgumentMessages ==
  {"Must provide destination address", "Must provide source amount",
   "Must provide destination amount", "Malformed payment request: no address",
   "Malformed payment request: no amount",
   "Malformed payment request: no condition"}

\* C11: a quote call that lacks a required argument (for the amount quotes
\* also one whose address is not a string) has failed with an
\* invalid-argument error without connect() or quote() being called; a call
\* given all of them calls connect() once and, once that has resolved,
\* quote() once.
C11_ArgumentValidation ==
  quote.fn # "none" =>
    IF ~RequiredFieldsPresent
    THEN /\ quote.pc = "rejected"
         /\ quote.outcome.kind = "err"
         /\ quote.outcome.val \in InvalidArgumentMessages
         /\ quote.connects = 0 /\ quote.quotes = 0
    ELSE /\ quote.connects = 1
         /\ quote.quotes = IF \/ quote.pc = "connecting"
                              \/ (quote.failed # "none" /\ quote.sent = Undefined)
                           THEN 0 ELSE 1
         /\ quote.outcome.kind = "err" =>
              quote.outcome.val \notin InvalidArgumentMessages

\* an amount quote was refused for an address that is not a string, and a
\* quoteRequest for a missing condition
C11_Witness ==
  /\ quote.pc = "rejected" /\ quote.connects = 0
  /\ \/ quote.fn = "quoteSourceAmount" /\ quote.given.address = Num(5)
     \/ quote.fn = "quoteRequest" /\ quote.given.condition = Undefined
                                  /\ Present(quote.given.amount)
                                  /\ Present(quote.given.address)

\* C12: in each of the three quote functions an empty or absent answer of
\* quote() makes the call fail with the empty-quote error and return
\* nothing; a failure of connect() or quote() is the call's failure,
\* unchanged.
C12_EmptyQuote ==
  /\ quote.got.t \in {"null", "undefined"} =>
       /\ quote.pc = "rejected"
       /\ quote.outcome = Err(EmptyQuoteMessage)
  /\ quote.failed # "none" =>
       /\ quote.pc = "rejected"
       /\ quote.outcome = Err(quote.failed)

\* an amount quote got an absent answer from the connector
C12_Witness ==
  /\ quote.fn = "quoteSourceAmount"
  /\ quote.got = Undefined
  /\ quote.outcome = Err(EmptyQuoteMessage)

\* the PaymentParams of a resolved quoteRequest carry the request's fields
PassesThrough(amountCarried) ==
  LET out == quote.outcome.val
      req == quote.given IN
    /\ out.destinationAccount = req.address
    /\ amountCarried
    /\ out.executionCondition = req.condition
    /\ out.destinationMemo = [data |-> req.data, expires_at |-> req.expires_at]
    /\ out.connectorAccount = quote.got.o.connectorAccount
    /\ out.sourceAmount.t = "string"
    /\ \/ out.sourceAmount = quote.got.o.sourceAmount
       \/ /\ quote.got.o.sourceAmount = Num(7)
          /\ out.sourceAmount = Str(<<"7">>)
    /\ quote.request = req

\* C18 as stated: the PaymentParams carry the request's address, the
\* request's amount, its condition and a memo with its data and expires_at;
\* sourceAmount and connectorAccount are the quote's; the request is not
\* modified.
C18_Original ==
  (quote.fn = "quoteRequest" /\ quote.pc = "resolved") =>
    PassesThrough(quote.outcome.val.destinationAmount = quote.given.amount)

\* C18 amended: as stated, but destinationAmount is the request's amount
\* converted to a string: equal to it when the amount is a string, its
\* decimal digits when the amount is a number.
C18_Passthrough ==
  (quote.fn = "quoteRequest" /\ quote.pc = "resolved") =>
    PassesThrough(
      /\ quote.outcome.val.destinationAmount.t = "string"
      /\ IF quote.given.amount.t = "string"
         THEN quote.outcome.val.destinationAmount = quote.given.amount
         ELSE /\ quote.given.amount = Num(10)
              /\ quote.outcome.val.destinationAmount = Str(<<"1", "0">>))

\* a request with data and a string amount was quoted by a connector whose
\* destination amount differs
C18_Witness ==
  /\ quote.fn = "quoteRequest" /\ quote.pc = "resolved"
  /\ quote.given.amount = Str(<<"1", "0">>)
  /\ quote.given.data # Undefined
  /\ quote.got.o.destinationAmount = Str(<<"9">>)
  /\ quote.outcome.val.destinationAmount = Str(<<"1", "0">>)

(***************************************************************************)
(* Properties of the fulfillment wait of payRequest.                       *)
(***************************************************************************)
\* the fulfillment the ledger has recorded for the transfer of call c
ProofOf(c) == ledger[payment[c].uuid].fulfillment

\* a failure of the lookup of call c other than MissingFulfillmentError,
\* delivered or on its way
LookupFailed(c) ==
  \/ hist[c].pollAnswer = "error"
  \/ /\ pc[c] = "polled"
     /\ PollAnswerOf(reply[c]) = "error"

\* call c has made its lookup and the Ledger Client neither failed nor
\* answered anything but the recorded proof or that none is recorded
LookupAssumed(c) ==
  /\ hist[c].polled
  /\ ~LookupFailed(c)

\* call c fails with the expired-transfer error in this step
FailsExpired(c) ==
  /\ outcome[c] # Err(ExpiredMessage)
  /\ outcome'[c] = Err(ExpiredMessage)

\* the timer of call c fires in this step
TimerFires(c) == timer[c] = "pending" /\ timer'[c] = "fired"

\* C14 as stated, for a call that waits for the event: a transfer that is
\* fulfilled before the call's timer fires does not make the call fail as
\* expired: when the timer of a call fires and the call fails with the
\* expired-transfer error, the ledger has recorded no fulfillment for its
\* transfer.
C14_Original ==
  [][\A c \in Calls :
       (TimerFires(c) /\ FailsExpired(c) /\ ClientWorked(c)) =>
         ledger[payment[c].uuid].state # "executed"]_vars

\* C14 amended: the listener is registered no later than the lookup is
\* made.  A call whose lookup the ledger answered with the recorded proof
\* does not fail as expired and settles only by resolving with that
\* proof; so does a call to whose listener the event was delivered.  An
\* emitted event leaves no call of its transfer waiting, and a timer that
\* fires after the event was emitted belongs to a call whose lookup gets
\* the proof.  A call fails as expired only when the ledger answered its
\* lookup before the fulfillment was recorded and no event was delivered
\* to its listener.
C14_NoLostFulfillment ==
  /\ [](\A c \in Calls :
          /\ hist[c].polled => hist[c].listened
          /\ LookupAssumed(c) =>
               /\ (hist[c].recordedAtAnswer \/ hist[c].delivered) =>
                    /\ outcome[c] # Err(ExpiredMessage)
                    /\ pc[c] # "waiting"
                    /\ Settled(c) =>
                         (pc[c] = "resolved" /\ outcome[c] = Ok(ProofOf(c)))
               /\ ledger[payment[c].uuid].emitted => pc[c] # "waiting")
  /\ [][\A c \in Calls :
          /\ (TimerFires(c) /\ LookupAssumed(c) /\ ledger[payment[c].uuid].emitted) =>
               (pc[c] = "polling" \/ hist[c].recordedAtAnswer)
          /\ FailsExpired(c) =>
               /\ hist'[c].pollAnswer = "missing"
               /\ ~hist'[c].recordedAtAnswer
               /\ ~hist'[c].delivered]_vars

\* a call whose lookup found nothing was fulfilled afterwards and resolved
\* with the proof through its listener
C14_Witness ==
  \E c \in Calls :
    /\ hist[c].pollAnswer = "missing" /\ ~hist[c].recordedAtAnswer
    /\ ledger[payment[c].uuid].emitted /\ hist[c].delivered
    /\ pc[c] = "resolved" /\ outcome[c] = Ok(ProofOf(c))

\* the timer of a call to whose listener a matching event was delivered is
\* cleared, its listener is unregistered, its promiseFulfillmentListener
\* has resolved with the event's fulfillment and it has not failed as
\* expired
DeliveryCleansUp(c) ==
  /\ timer[c] = "cleared"
  /\ c \notin listeners
  /\ promiseFulfillmentListener[c] = Ok(ProofOf(c))
  /\ outcome[c] # Err(ExpiredMessage)

\* C15 as stated: the step that delivers a matching outgoing_fulfill event
\* to a call's listener clears the timer and unregisters the listener;
\* after the delivery the timer does not fire and the call does not fail
\* as expired; and a call that had not settled before the event was
\* delivered settles only by resolving with the event's fulfillment.
C15_Original ==
  [][\A c \in Calls :
       /\ (~hist[c].delivered /\ hist'[c].delivered) => DeliveryCleansUp(c)'
       /\ hist[c].delivered => (~TimerFires(c) /\ ~FailsExpired(c))
       /\ (hist'[c].delivered /\ ~Settled(c) /\ Settled(c)') =>
            (pc'[c] = "resolved" /\ outcome'[c] = Ok(ProofOf(c)))]_vars

\* C16: after getFulfillment answered MissingFulfillmentError or an empty
\* result the call has not failed with MissingFulfillmentError: it waits
\* on promiseFulfillmentListener or has settled as that promise did; after
\* any other failure of getFulfillment the call has rejected with that
\* error.
C16_PollOutcome ==
  \A c \in Calls :
    /\ hist[c].pollAnswer = "missing" =>
         /\ outcome[c] # Err("MissingFulfillmentError")
         /\ \/ /\ pc[c] = "waiting"
               /\ promiseFulfillmentListener[c].kind = "pending"
               /\ outcome[c] = NoOutcome
            \/ /\ Settled(c)
               /\ promiseFulfillmentListener[c].kind \in {"ok", "err"}
               /\ outcome[c] = promiseFulfillmentListener[c]
    /\ hist[c].pollAnswer = "error" =>
         /\ pc[c] = "rejected"
         /\ outcome[c].kind = "err"
         /\ outcome[c].val \in PollErrorNames \ {"MissingFulfillmentError"}

\* one call waits after a missing fulfillment while another has rejected
\* with the failure of its lookup
C16_Witness ==
  \E c, d \in Calls :
    /\ hist[c].pollAnswer = "missing" /\ pc[c] = "waiting"
    /\ hist[d].pollAnswer = "error" /\ pc[d] = "rejected"

\* an outgoing_fulfill event is emitted for transfer id in this step
Emits(id) == ~ledger[id].emitted /\ ledger'[id].emitted

\* a call that resolved with a fulfillment got the one recorded for the
\* transfer of its own condition, from its lookup or from a delivered event
OwnFulfillment(c) ==
  (pc[c] = "resolved" /\ outcome[c].val \in Fulfillments) =>
    /\ ledger[payment[c].uuid].cond = payment[c].executionCondition
    /\ outcome[c] = Ok(ProofOf(c))
    /\ hist[c].pollAnswer = "proof" \/ hist[c].delivered

\* C17: an outgoing_fulfill event for a transfer whose condition differs
\* from that of a call leaves the call as it was: position, listener,
\* timer, inner promise and outcome; and a call resolves only with the
\* fulfillment of the transfer of its own condition.
C17_Independence ==
  /\ [](\A c \in Calls : OwnFulfillment(c))
  /\ [][\A c \in Calls, id \in TransferIds :
          (Emits(id) /\ ledger[id].cond # payment[c].executionCondition) =>
            /\ pc'[c] = pc[c]
            /\ (c \in listeners') = (c \in listeners)
            /\ timer'[c] = timer[c]
            /\ promiseFulfillmentListener'[c] = promiseFulfillmentListener[c]
            /\ outcome'[c] = outcome[c]]_vars

\* a call still waits, listener registered and timer pending, after the
\* event for the other call's transfer was delivered to that call
C17_Witness ==
  \E c, d \in Calls :
    /\ payment[c].executionCondition # payment[d].executionCondition
    /\ pc[c] = "waiting" /\ c \in listeners /\ timer[c] = "pending"
    /\ hist[d].delivered /\ pc[d] = "resolved"
    /\ outcome[d] = Ok(ProofOf(d))

\* the lookup of call c returned a proof: delivered, or on its way
ProofReturned(c) ==
  \/ hist[c].pollAnswer = "proof"
  \/ /\ pc[c] = "polled"
     /\ PollAnswerOf(reply[c]) = "proof"

\* C19: a call has failed as expired only if its lookup reported that no
\* fulfillment is recorded; a call whose timer fired while its lookup was
\* in flight and whose lookup returns a proof resolves with that proof: it
\* has resolved with it, or the proof is on its way to the running
\* process; and no call settles more than once.
C19_ExpiredOnlyAfterMissing ==
  \A c \in Calls :
    /\ outcome[c] = Err(ExpiredMessage) => hist[c].pollAnswer = "missing"
    /\ (Submitted(c) /\ hist[c].firedUnanswered /\ ProofReturned(c)) =>
         \/ pc[c] = "resolved" /\ outcome[c] = Ok(ProofOf(c))
         \/ pc[c] = "polled" /\ process = "running"
    /\ hist[c].settledCount <= 1
    /\ Settled(c) <=> hist[c].settledCount = 1

\* C13: once stopListening has disconnected the client, no
\* outgoing_fulfill listener of a payRequest call is registered on it and
\* no transferTimeout is pending.
C13_StopReleases ==
  client = "disconnected" =>
    /\ listeners = {}
    /\ \A c \in Calls : timer[c] # "pending"

\* the timers that have been started and have neither fired nor been
\* cleared
PendingTimers == {c \in Calls : timer[c] = "pending"}

\* C20: a registered listener belongs to a call whose timer is pending, so
\* that the client never holds more listeners than there are calls whose
\* deadline has not passed; and every registered listener is eventually
\* unregistered, whichever way its call has settled: when its timer fires
\* or is cleared, or when the process ends and its timers with it.
C20_EventualCleanup ==
  /\ [](listeners \subseteq PendingTimers)
  /\ [](Cardinality(listeners) <= Cardinality(PendingTimers))
  /\ \A c \in Calls : (c \in listeners) ~> (c \notin listeners)
  /\ \A c \in Calls :
       (c \in listeners) ~> (timer[c] \in {"fired", "cleared", "dead"})

\* a call that returned the proof from getFulfillment while its listener
\* was registered had the listener removed when its timer fired
C20_Witness ==
  \E c \in Calls :
    /\ hist[c].pollAnswer = "proof" /\ pc[c] = "resolved"
    /\ ~hist[c].firedUnanswered
    /\ timer[c] = "fired" /\ c \notin listeners

====
